---- MODULE Spec2Model ----
(***************************************************************************)
(* Model of src/App.tsx: the hypercube generator (generateHypercube), the  *)
(* HypercubeVisualizer component (its two memoised values and what it      *)
(* renders) and the App component (dimension / isPlaying / speed state,    *)
(* the dimension-advance timeout effect and the three controls).           *)
(*                                                                         *)
(* Numbers.  JavaScript numbers that take part in bit operations are       *)
(* 32-bit two's complement integers; they are integers of that range here. *)
(* Coordinates and projected positions of dimensions 0..2 are multiples of *)
(* one half; such a number x is held as the integer 2x ("half-units"), so  *)
(* 0.5 is 1, -0.5 is -1 and the integer n is 2n.  The projected positions  *)
(* of the angular projection are sums of cosines and sines; they are held  *)
(* as terms (coefficients, angle denominator, scale factor).               *)
(***************************************************************************)
EXTENDS Integers, Sequences, FiniteSets

VARIABLES
    dimension,          \* App state `dimension`, passed to the visualizer as prop
    isPlaying,          \* App state `isPlaying`
    speed,              \* App state `speed`, in tenths (the slider's step is 0.1)
    timers,             \* the timeouts pending in the event loop: [id, delay]
    nextTimerId,        \* the handle the next setTimeout returns
    effectTimer,        \* the handle closed over by the effect's cleanup, <<>> if none
    lastOp,             \* the operation that produced this state
    size,               \* visualizer prop `size`
    phase,              \* how far the visualizer's render has got
    nDVertices,         \* useMemo: generateHypercube(dimension).vertices
    edges,              \* useMemo: generateHypercube(dimension).edges
    projectedVertices,  \* useMemo: the projected points
    svg                 \* what the visualizer returned: <<>> is null

appVars == <<dimension, isPlaying, speed, timers, nextTimerId, effectTimer, lastOp>>
visVars == <<size, phase, nDVertices, edges, projectedVertices, svg>>
vars == <<dimension, isPlaying, speed, timers, nextTimerId, effectTimer, lastOp,
          size, phase, nDVertices, edges, projectedVertices, svg>>

(***************************************************************************)
(* Bounds of the model.                                                    *)
(***************************************************************************)
MaxNeg == 2         \* dimensions -MaxNeg .. -1 are tried
MaxDim == 5         \* dimensions 0 .. MaxDim are tried
MaxWrap == 2        \* dimensions WordBits-1 .. WordBits-1+MaxWrap are tried
MaxSize == 3        \* sizes -MaxSize .. MaxSize are tried, besides the App's size
MaxTimerIds == 3    \* timeout handles are drawn cyclically from 1 .. MaxTimerIds
MaxSpeedSteps == 1  \* slider positions InitialSpeed .. InitialSpeed+MaxSpeedSteps are tried,
                    \* besides the slider's two ends

(***************************************************************************)
(* 32-bit integer operations of JavaScript.                                *)
(***************************************************************************)
WordBits == 32

\* 2^(WordBits-1), written so that no intermediate value leaves the 32-bit range
\* when negated.
HalfRange == 2 ^ (WordBits - 2)

\* x << n for 0 <= x < 2: the shift count is taken modulo 32 and the result is
\* a signed 32-bit integer, so 1 << 31 is -2^31 and 1 << 32 is 1.
ShiftLeft(x, n) ==
    LET k == n % WordBits
    IN  IF x = 0 THEN 0
        ELSE IF k = WordBits - 1 THEN (-HalfRange) - HalfRange
        ELSE x * (2 ^ k)

\* x >> n, sign-propagating, the shift count taken modulo 32.
ShiftRight(x, n) ==
    LET k == n % WordBits
    IN  IF k = WordBits - 1 THEN (IF x < 0 THEN -1 ELSE 0)
        ELSE x \div (2 ^ k)

\* x & 1
AndOne(x) == x % 2

RECURSIVE XorNat(_, _)
XorNat(a, b) ==
    IF a = 0 THEN b
    ELSE IF b = 0 THEN a
    ELSE (((a % 2) + (b % 2)) % 2) + 2 * XorNat(a \div 2, b \div 2)

\* a ^ b on signed 32-bit integers: the sign bits and the low 31 bits apart.
Xor(a, b) ==
    LET low(x) == IF x < 0 THEN (x + HalfRange) + HalfRange ELSE x
        l == XorNat(low(a), low(b))
    IN  IF (a < 0) # (b < 0) THEN (l - HalfRange) - HalfRange ELSE l

(***************************************************************************)
(* generateHypercube, src/App.tsx lines 7-34.                              *)
(***************************************************************************)
\* 0.5 in half-units
Half == 1

numVertices(d) == ShiftLeft(1, d)

\* line 18: (i >> j) & 1 ? 0.5 : -0.5
CoordinateWrongBit(i, j) == IF AndOne(ShiftRight(i, j + 1)) # 0 THEN Half ELSE -Half
Coordinate(i, j) == IF AndOne(ShiftRight(i, j)) # 0 THEN Half ELSE -Half

\* lines 16-19: the point of vertex i; coordinate j is element j+1
PointShort(i, d) == [j1 \in 1..(d - 1) |-> Coordinate(i, j1 - 1)]
Point(i, d) == [j1 \in 1..d |-> Coordinate(i, j1 - 1)]

\* lines 14-21
VerticesInclusive(d) == [i1 \in 1..(numVertices(d) + 1) |-> Point(i1 - 1, d)]
Vertices(d) == [i1 \in 1..numVertices(d) |-> Point(i1 - 1, d)]

\* line 26
neighborByAddition(i, j) == i + ShiftLeft(1, j)
neighbor(i, j) == Xor(i, ShiftLeft(1, j))

\* lines 27-29: whether the pair is pushed
EmitsAlways(i, n) == i # n
Emits(i, n) == i < n

\* lines 25-30: the edges pushed for vertex i, in order of j
EdgesOf(i, d) ==
    LET all == [j1 \in 1..d |-> <<i, neighbor(i, j1 - 1)>>]
        keep(e) == Emits(e[1], e[2])
    IN  SelectSeq(all, keep)

\* lines 23-31: the edges pushed while i runs from 0 up to n - 1, in that order
\* (loop[a, b] is what is pushed for a <= i < b; the range is halved so that
\* the evaluation stays shallow)
EdgeLoop(n, d) ==
    LET loop[a \in Int, b \in Int] ==
            IF ~(a < b) THEN <<>>
            ELSE IF a + 1 = b THEN EdgesOf(a, d)
            ELSE loop[a, a + ((b - a) \div 2)] \o loop[a + ((b - a) \div 2), b]
    IN  loop[0, n]

\* lines 8-11
ZeroCase(d) ==
    IF d = 0 THEN [vertices |-> << <<0>> >>, edges |-> <<>>]
    ELSE [vertices |-> <<>>, edges |-> <<>>]

generateHypercube(d) ==
    IF d < 1 THEN ZeroCase(d)
    ELSE [vertices |-> Vertices(d), edges |-> EdgeLoop(numVertices(d), d)]

(***************************************************************************)
(* HypercubeVisualizer, src/App.tsx lines 43-100.                          *)
(***************************************************************************)
\* the integer n in half-units
Fixed(n) == 2 * n

\* x / 2 for x in half-units, exact because every x it is applied to is even
Div2(x) == x \div 2

\* lines 65-69: the sum over k of point[k] * fn(PI * k / (dimension - 1.5)),
\* held as its coefficients and the angle's denominator 2 * (dimension - 1.5)
AngularSum(point, d, fn) ==
    [fn |-> fn, coeff |-> [k1 \in 1..d |-> point[k1]], angleDen |-> 2 * d - 3]

\* lines 61-74: scaleFactor = size * 2.2 / (dimension - 1), held as a fraction
AngularPoint(point, d, s) ==
    LET scaleFactor == <<s * 22, 10 * (d - 1)>>
    IN  [x |-> [sum |-> AngularSum(point, d, "cos"), scaleFactor |-> scaleFactor],
         y |-> [sum |-> AngularSum(point, d, "sin"), scaleFactor |-> scaleFactor]]

\* lines 51-58
SquareRowMajorSwapped(s) ==
    << [x |-> -Div2(Fixed(s)), y |-> -Div2(Fixed(s))],
       [x |-> -Div2(Fixed(s)), y |->  Div2(Fixed(s))],
       [x |->  Div2(Fixed(s)), y |-> -Div2(Fixed(s))],
       [x |->  Div2(Fixed(s)), y |->  Div2(Fixed(s))] >>
Square(s) ==
    << [x |-> -Div2(Fixed(s)), y |-> -Div2(Fixed(s))],
       [x |->  Div2(Fixed(s)), y |-> -Div2(Fixed(s))],
       [x |-> -Div2(Fixed(s)), y |->  Div2(Fixed(s))],
       [x |->  Div2(Fixed(s)), y |->  Div2(Fixed(s))] >>

\* line 50
Segment(s) ==
    << [x |-> -Div2(Fixed(s)), y |-> Fixed(0)],
       [x |->  Div2(Fixed(s)), y |-> Fixed(0)] >>

\* lines 61-74: nDVertices.map(...)
MapDropsLast(vs, d, s) ==
    [i1 \in 1..(Len(vs) - 1) |-> AngularPoint(vs[i1], d, s)]
MapAngular(vs, d, s) ==
    [i1 \in 1..Len(vs) |-> AngularPoint(vs[i1], d, s)]

\* lines 46-75
ProjectNegativeAsPoint(vs, d, s) ==
    IF d <= 0 THEN << [x |-> Fixed(0), y |-> Fixed(0)] >>
    ELSE IF d = 1 THEN Segment(s)
    ELSE IF d = 2 THEN Square(s)
    ELSE MapAngular(vs, d, s)
Project(vs, d, s) ==
    IF d = 0 THEN << [x |-> Fixed(0), y |-> Fixed(0)] >>
    ELSE IF d = 1 THEN Segment(s)
    ELSE IF d = 2 THEN Square(s)
    ELSE MapAngular(vs, d, s)

\* projectedVertices[i]: <<>> is undefined
At(arr, i) == IF i \in 0..(Len(arr) - 1) THEN <<arr[i + 1]>> ELSE <<>>

\* lines 85-90: the line of one edge, <<>> is null
LineOf(pv, e) ==
    LET p1 == At(pv, e[1])
        p2 == At(pv, e[2])
    IN  IF p1 = <<>> \/ p2 = <<>> THEN <<>>
        ELSE << [x1 |-> p1[1].x, y1 |-> p1[1].y, x2 |-> p2[1].x, y2 |-> p2[1].y] >>

\* lines 77-99: what the component returns, <<>> is null
Render(pv, es) ==
    IF Len(pv) = 0 THEN <<>>
    ELSE << [lines   |-> [k \in 1..Len(es) |-> LineOf(pv, es[k])],
             circles |-> [i1 \in 1..Len(pv) |-> [cx |-> pv[i1].x, cy |-> pv[i1].y]]] >>

(***************************************************************************)
(* The visualizer alone, rendered once with props drawn from small sets.   *)
(***************************************************************************)
InitialDimension == 2
InitialSpeed == 10
AppSize == 100

Dims == ((-MaxNeg)..MaxDim) \cup ((WordBits - 1)..(WordBits - 1 + MaxWrap))
Sizes == ((-MaxSize)..MaxSize) \cup {AppSize}

\* The component is mounted on its own: there is no App around it, so nothing
\* is playing and no timeout is ever armed.
VisInit ==
    /\ dimension \in Dims
    /\ size \in Sizes
    /\ isPlaying = FALSE
    /\ speed = InitialSpeed
    /\ timers = {}
    /\ nextTimerId = 1
    /\ effectTimer = <<>>
    /\ lastOp = "mount"
    /\ phase = "props"
    /\ nDVertices = <<>>
    /\ edges = <<>>
    /\ projectedVertices = <<>>
    /\ svg = <<>>

\* line 44
Generate ==
    /\ phase = "props"
    /\ nDVertices' = generateHypercube(dimension).vertices
    /\ edges' = generateHypercube(dimension).edges
    /\ phase' = "generated"
    /\ UNCHANGED <<size, projectedVertices, svg>>
    /\ UNCHANGED appVars

\* lines 46-75
Projection ==
    /\ phase = "generated"
    /\ projectedVertices' = Project(nDVertices, dimension, size)
    /\ phase' = "projected"
    /\ UNCHANGED <<size, nDVertices, edges, svg>>
    /\ UNCHANGED appVars

\* lines 77-99
Return ==
    /\ phase = "projected"
    /\ svg' = Render(projectedVertices, edges)
    /\ phase' = "rendered"
    /\ UNCHANGED <<size, nDVertices, edges, projectedVertices>>
    /\ UNCHANGED appVars

VisNext == Generate \/ Projection \/ Return

VisSpec == VisInit /\ [][VisNext]_vars

(***************************************************************************)
(* App, src/App.tsx lines 113-205.                                         *)
(***************************************************************************)
MaxDimension == 9
SpeedMin == 5
SpeedMax == 40

\* the slider positions tried, in tenths
Speeds == {SpeedMin, SpeedMax} \cup (InitialSpeed..(InitialSpeed + MaxSpeedSteps))

\* line 122: d => (d >= 9 ? 2 : d + 1)
NextDimensionNoWrap(d) == d + 1
NextDimension(d) == IF d >= MaxDimension THEN InitialDimension ELSE d + 1

\* line 120: 3000 / speed, as the whole number of milliseconds setTimeout keeps
Interval(sp) == 30000 \div sp

\* line 124: clearTimeout(timer) for the handle the effect closed over
CleanupKeeps(ts, handle) == ts
Cleanup(ts, handle) ==
    IF handle = <<>> THEN ts ELSE {t \in ts : t.id # handle[1]}

\* lines 119-125: the effect body; what is pending, the cleanup's handle and the
\* next handle afterwards
Effect(ts, playing, sp, id) ==
    IF playing
    THEN [timers |-> ts \cup {[id |-> id, delay |-> Interval(sp)]},
          effectTimer |-> <<id>>,
          nextTimerId |-> (id % MaxTimerIds) + 1]
    ELSE [timers |-> ts, effectTimer |-> <<>>, nextTimerId |-> id]

\* lines 44-99: everything the visualizer computes for dimension d and size s
Visualize(d, s) ==
    LET cube == generateHypercube(d)
        pv == Project(cube.vertices, d, s)
    IN  [nDVertices |-> cube.vertices, edges |-> cube.edges,
         projectedVertices |-> pv, svg |-> Render(pv, cube.edges)]

\* the same for the dimensions of the cycle at the App's size, computed once
AppVisuals == [d \in InitialDimension..MaxDimension |-> Visualize(d, AppSize)]

\* lines 147-152: the visualizer re-rendered for the new dimension; both
\* memoised values depend on the dimension, the size never changes
RenderVisualizer(d) ==
    IF d = dimension THEN UNCHANGED visVars
    ELSE LET v == IF d \in DOMAIN AppVisuals /\ size = AppSize
                  THEN AppVisuals[d] ELSE Visualize(d, size)
         IN  /\ nDVertices' = v.nDVertices
             /\ edges' = v.edges
             /\ projectedVertices' = v.projectedVertices
             /\ svg' = v.svg
             /\ UNCHANGED <<size, phase>>

\* One state update committed: the new state is rendered and, when one of the
\* effect's dependencies (line 126) changed, the previous effect is cleaned up
\* and the effect runs again.  ts are the timeouts pending when the update is made.
Commit(d, playing, sp, ts) ==
    /\ dimension' = d
    /\ isPlaying' = playing
    /\ speed' = sp
    /\ RenderVisualizer(d)
    /\ IF <<d, playing, sp>> = <<dimension, isPlaying, speed>>
       THEN /\ timers' = ts
            /\ UNCHANGED <<effectTimer, nextTimerId>>
       ELSE LET cleaned == Cleanup(ts, effectTimer)
                e == Effect(cleaned, playing, sp, nextTimerId)
            IN  /\ nextTimerId \notin {t.id : t \in cleaned}
                /\ timers' = e.timers
                /\ effectTimer' = e.effectTimer
                /\ nextTimerId' = e.nextTimerId

\* lines 114-126 and 147-152: the first render and its effect
Init ==
    /\ dimension = InitialDimension
    /\ isPlaying = TRUE
    /\ speed = InitialSpeed
    /\ timers = Effect({}, TRUE, InitialSpeed, 1).timers
    /\ effectTimer = Effect({}, TRUE, InitialSpeed, 1).effectTimer
    /\ nextTimerId = Effect({}, TRUE, InitialSpeed, 1).nextTimerId
    /\ lastOp = "mount"
    /\ size = AppSize
    /\ phase = "rendered"
    /\ nDVertices = generateHypercube(InitialDimension).vertices
    /\ edges = generateHypercube(InitialDimension).edges
    /\ projectedVertices = Project(nDVertices, InitialDimension, AppSize)
    /\ svg = Render(projectedVertices, edges)

\* lines 121-123: a pending timeout fires
TimerFire ==
    \E t \in timers :
        /\ Commit(NextDimension(dimension), isPlaying, speed, timers \ {t})
        /\ lastOp' = "timer"

\* line 175
TogglePlaying ==
    /\ Commit(dimension, ~isPlaying, speed, timers)
    /\ lastOp' = "toggle"

\* lines 128-131
handleReset ==
    /\ Commit(InitialDimension, FALSE, speed, timers)
    /\ lastOp' = "reset"

\* line 191: the slider moved to another position
SetSpeed ==
    \E sp \in Speeds \ {speed} :
        /\ Commit(dimension, isPlaying, sp, timers)
        /\ lastOp' = "speed"

Next == TimerFire \/ TogglePlaying \/ handleReset \/ SetSpeed

Spec == Init /\ [][Next]_vars

\* The event loop runs a pending timeout's callback once its delay has passed.
FairSpec == Spec /\ WF_vars(TimerFire)

(***************************************************************************)
(* Properties.  The arithmetic below is that of the statements, not of the *)
(* code: powers of two and binary digits are taken by repeated halving, so *)
(* that dimensions beyond the 32-bit range can be judged as well.          *)
(***************************************************************************)
\* n = 2^d
RECURSIVE IsTwoToThe(_, _)
IsTwoToThe(n, d) ==
    IF d = 0 THEN n = 1
    ELSE n > 0 /\ n % 2 = 0 /\ IsTwoToThe(n \div 2, d - 1)

\* n = d * 2^(d-1), for d >= 1
IsEdgeCount(n, d) == n % d = 0 /\ IsTwoToThe(n \div d, d - 1)

\* binary digit j of the natural number i
RECURSIVE Bit(_, _)
Bit(i, j) == IF j = 0 THEN i % 2 ELSE Bit(i \div 2, j - 1)

\* the number of binary digits in which the natural numbers i and j differ
RECURSIVE DiffBits(_, _)
DiffBits(i, j) ==
    IF i = 0 /\ j = 0 THEN 0
    ELSE (IF i % 2 # j % 2 THEN 1 ELSE 0) + DiffBits(i \div 2, j \div 2)

\* the largest dimension whose 2^d vertices are indexed by positive 32-bit integers
MaxExactDim == WordBits - 2

Generated == phase \in {"generated", "projected", "rendered"}
Projected == phase \in {"projected", "rendered"}
VertexIndices == 0..(Len(nDVertices) - 1)
EdgeSet == {edges[k] : k \in 1..Len(edges)}

\* the number of edges of which vertex i is an endpoint
Degree(i) == Cardinality({k \in 1..Len(edges) : edges[k][1] = i \/ edges[k][2] = i})

----------------------------------------------------------------------------
\* C1 as stated: for every dimension d >= 0 the vertex list has exactly 2^d
\* vertices.
C1_AllDimensions ==
    (Generated /\ dimension >= 0) => IsTwoToThe(Len(nDVertices), dimension)

\* C1, amended: for every dimension 0 <= d <= 30 generateHypercube(d) returns
\* exactly 2^d vertices (one vertex for d = 0).
C1_VertexCount ==
    (Generated /\ dimension >= 0 /\ dimension <= MaxExactDim)
        => IsTwoToThe(Len(nDVertices), dimension)

C1_Witness == phase = "generated" /\ dimension = 4 /\ Len(nDVertices) = 16

----------------------------------------------------------------------------
\* C2 as stated: for every dimension d >= 1 there are exactly d * 2^(d-1)
\* edges, and none for d = 0.
C2_AllDimensions ==
    Generated =>
        /\ dimension >= 1 => IsEdgeCount(Len(edges), dimension)
        /\ dimension = 0 => Len(edges) = 0

\* C2, amended: for every dimension 1 <= d <= 30 generateHypercube(d) returns
\* exactly d * 2^(d-1) edges, and for d = 0 it returns no edge.
C2_EdgeCount ==
    Generated =>
        /\ (dimension >= 1 /\ dimension <= MaxExactDim)
              => IsEdgeCount(Len(edges), dimension)
        /\ dimension = 0 => Len(edges) = 0

C2_Witness == phase = "generated" /\ dimension = 4 /\ Len(edges) = 32

----------------------------------------------------------------------------
\* The edge list enumerates, without repetition, exactly the pairs <<i, j>> of
\* vertex indices with i < j that differ in one binary digit, there being 2^d
\* vertices; so every vertex is an endpoint of exactly d edges.
EdgeEnumeration ==
    /\ IsTwoToThe(Len(nDVertices), dimension)
    /\ \A k \in 1..Len(edges) :
          /\ edges[k][1] \in VertexIndices
          /\ edges[k][2] \in VertexIndices
          /\ edges[k][1] < edges[k][2]
          /\ DiffBits(edges[k][1], edges[k][2]) = 1
    /\ \A i, j \in VertexIndices :
          (i < j /\ DiffBits(i, j) = 1) => <<i, j>> \in EdgeSet
    /\ \A k, l \in 1..Len(edges) : edges[k] = edges[l] => k = l
    /\ \A i \in VertexIndices : Degree(i) = dimension

\* C3 as stated: for every dimension d >= 1 the edge list is such an
\* enumeration.
C3_AllDimensions == (Generated /\ dimension >= 1) => EdgeEnumeration

\* C3, amended: for every dimension 1 <= d <= 30 the edge list is a
\* duplicate-free enumeration of exactly the pairs [i, j], 0 <= i < j < 2^d,
\* that differ in exactly one bit, and every vertex is an endpoint of exactly
\* d edges.
C3_EdgeEnumeration ==
    (Generated /\ dimension >= 1 /\ dimension <= MaxExactDim) => EdgeEnumeration

C3_Witness ==
    /\ phase = "generated" /\ dimension = 3
    /\ edges = << <<0, 1>>, <<0, 2>>, <<0, 4>>, <<1, 3>>, <<1, 5>>, <<2, 3>>,
                  <<2, 6>>, <<3, 7>>, <<4, 5>>, <<4, 6>>, <<5, 7>>, <<6, 7>> >>

----------------------------------------------------------------------------
\* There are 2^d vertices, and coordinate j of vertex i is +0.5 (1 half-unit)
\* if binary digit j of i is 1 and -0.5 otherwise.
CoordinatesByBit ==
    /\ IsTwoToThe(Len(nDVertices), dimension)
    /\ \A i \in VertexIndices :
          /\ Len(nDVertices[i + 1]) = dimension
          /\ \A j \in 0..(dimension - 1) :
                nDVertices[i + 1][j + 1] = IF Bit(i, j) = 1 THEN 1 ELSE -1

\* C4 as stated: for every dimension d >= 1 and every index i < 2^d.
C4_AllDimensions == (Generated /\ dimension >= 1) => CoordinatesByBit

\* C4, amended: for every dimension 1 <= d <= 30 and every vertex index
\* 0 <= i < 2^d, the i-th vertex has, for every j in [0, d), coordinate j equal
\* to +0.5 if bit j of i is set and -0.5 otherwise.
C4_CoordinatesByBit ==
    (Generated /\ dimension >= 1 /\ dimension <= MaxExactDim) => CoordinatesByBit

C4_Witness ==
    /\ phase = "generated" /\ dimension = 3
    /\ nDVertices[7] = <<-1, 1, 1>>

----------------------------------------------------------------------------
\* every vertex is a sequence of exactly d coordinates, each -0.5 or +0.5
VertexShape ==
    \A i \in VertexIndices :
        /\ Len(nDVertices[i + 1]) = dimension
        /\ \A c \in 1..Len(nDVertices[i + 1]) : nDVertices[i + 1][c] \in {-1, 1}

\* C5 as stated: for every dimension d >= 0, d = 0 included.
C5_AllDimensions == (Generated /\ dimension >= 0) => VertexShape

\* C5, amended: for every dimension d >= 1 every vertex is an ordered sequence
\* of exactly d coordinates, each -0.5 or +0.5; for d = 0 the one vertex is
\* the one-coordinate sequence [0].
C5_VertexShape ==
    Generated =>
        /\ dimension >= 1 => VertexShape
        /\ dimension = 0 => nDVertices = << <<0>> >>

C5_Witness ==
    /\ phase = "generated" /\ dimension = 2
    /\ nDVertices = << <<-1, -1>>, <<1, -1>>, <<-1, 1>>, <<1, 1>> >>

----------------------------------------------------------------------------
\* C6: for every negative dimension the vertex list and the edge list are
\* empty, the projected point list is empty and the visualizer renders nothing
\* (returns null).
C6_NegativeDimension ==
    dimension < 0 =>
        /\ Generated => (nDVertices = <<>> /\ edges = <<>>)
        /\ Projected => projectedVertices = <<>>
        /\ phase = "rendered" => svg = <<>>

C6_Witness ==
    /\ phase = "rendered" /\ dimension < 0
    /\ nDVertices = <<>> /\ projectedVertices = <<>> /\ svg = <<>>

----------------------------------------------------------------------------
\* the point (x, y) whose coordinates are the halves x/2 and y/2
HalfPoint(x, y) == [x |-> x, y |-> y]

\* C7: for every size s the projection is the point (0, 0) for dimension 0,
\* [(-s/2, 0), (s/2, 0)] for dimension 1 and [(-s/2, -s/2), (s/2, -s/2),
\* (-s/2, s/2), (s/2, s/2)] in that order for dimension 2; with s = 100 that
\* is [(-50, -50), (50, -50), (-50, 50), (50, 50)].
C7_LowDimensions ==
    Projected =>
        /\ dimension = 0 => projectedVertices = << HalfPoint(0, 0) >>
        /\ dimension = 1 =>
              projectedVertices = << HalfPoint(-size, 0), HalfPoint(size, 0) >>
        /\ dimension = 2 =>
              projectedVertices = << HalfPoint(-size, -size), HalfPoint(size, -size),
                                     HalfPoint(-size, size), HalfPoint(size, size) >>
        /\ (dimension = 2 /\ size = 100) =>
              projectedVertices = << HalfPoint(2 * (-50), 2 * (-50)),
                                     HalfPoint(2 * 50, 2 * (-50)),
                                     HalfPoint(2 * (-50), 2 * 50),
                                     HalfPoint(2 * 50, 2 * 50) >>

C7_Witness ==
    /\ phase = "projected" /\ dimension = 2 /\ size = 100
    /\ projectedVertices[2] = HalfPoint(100, -100)

----------------------------------------------------------------------------
\* one point per vertex, point i the image of vertex i
PointPerVertex ==
    /\ Len(projectedVertices) = Len(nDVertices)
    /\ dimension = 1 =>
          \A i \in 1..Len(nDVertices) :
              /\ projectedVertices[i].x = size * nDVertices[i][1]
              /\ projectedVertices[i].y = 0
    /\ dimension = 2 =>
          \A i \in 1..Len(nDVertices) :
              /\ projectedVertices[i].x = size * nDVertices[i][1]
              /\ projectedVertices[i].y = size * nDVertices[i][2]
    /\ dimension >= 3 =>
          \A i \in 1..Len(nDVertices) :
              /\ projectedVertices[i].x.sum.coeff = nDVertices[i]
              /\ projectedVertices[i].y.sum.coeff = nDVertices[i]

\* every edge's two indices are indices of projected points, and the line
\* rendered for it joins those two points
EdgesReferencePoints ==
    /\ \A k \in 1..Len(edges) :
          /\ edges[k][1] \in 0..(Len(projectedVertices) - 1)
          /\ edges[k][2] \in 0..(Len(projectedVertices) - 1)
    /\ (phase = "rendered" /\ svg # <<>>) =>
          \A k \in 1..Len(edges) :
              svg[1].lines[k] =
                  << [x1 |-> projectedVertices[edges[k][1] + 1].x,
                      y1 |-> projectedVertices[edges[k][1] + 1].y,
                      x2 |-> projectedVertices[edges[k][2] + 1].x,
                      y2 |-> projectedVertices[edges[k][2] + 1].y] >>

\* C8 as stated: for every dimension.
C8_AllDimensions == Projected => (PointPerVertex /\ EdgesReferencePoints)

\* C8, amended: for every dimension the projected point list has the length of
\* the vertex list, point i being the image of vertex i (for d = 1 and d = 2
\* size times the coordinates of vertex i, y = 0 for d = 1); for d <= 30 every
\* edge index pair references the projected points of its own two vertices.
C8_PointPerVertex ==
    Projected =>
        /\ PointPerVertex
        /\ dimension <= MaxExactDim => EdgesReferencePoints

C8_Witness ==
    /\ phase = "rendered" /\ dimension = 3
    /\ Len(projectedVertices) = 8
    /\ Len(svg[1].lines) = 12
    /\ \A k \in 1..12 : svg[1].lines[k] # <<>>

----------------------------------------------------------------------------
UserOps == {"toggle", "reset", "speed"}

\* C9: in every state reachable from the initial App state the dimension is an
\* integer in 2..9; a timer firing takes it from d to d + 1 when d < 9 and
\* from 9 to 2, a reset sets it to 2, and toggling play/pause or changing the
\* speed leaves it alone.
C9_DimensionCycle ==
    /\ [](dimension \in 2..9)
    /\ [][ /\ lastOp' = "timer" =>
                dimension' = IF dimension < 9 THEN dimension + 1 ELSE 2
           /\ lastOp' = "reset" => dimension' = 2
           /\ lastOp' \in {"toggle", "speed"} => dimension' = dimension ]_vars

C9_Witness == dimension = 2 /\ lastOp = "timer" /\ isPlaying

----------------------------------------------------------------------------
\* at most one timeout is pending, and none while paused
OnePending ==
    /\ Cardinality(timers) <= 1
    /\ ~isPlaying => timers = {}

\* pausing, resetting or changing the speed cancels the timeout that was pending
CancelsPending ==
    (lastOp' \in {"reset", "speed"} \/ (lastOp' = "toggle" /\ ~isPlaying'))
        => timers \cap timers' = {}

\* while playing with no further user input the dimension keeps advancing: a
\* behaviour either is paused again and again, or has user input again and
\* again, or has the timer advance the dimension again and again
Advances ==
    \/ []<>(~isPlaying)
    \/ []<><<lastOp' \in UserOps>>_vars
    \/ []<><<lastOp' = "timer" /\ dimension' = (IF dimension < 9 THEN dimension + 1 ELSE 2)>>_vars

\* C10 as stated: ... after Reset or Pause the dimension never changes until
\* play is toggled on again ...
C10_NeverChangesWhilePaused ==
    /\ []OnePending
    /\ [][CancelsPending]_vars
    /\ [][~isPlaying => dimension' = dimension]_vars
    /\ Advances

\* C10, amended: at most one dimension-advance timeout is pending at any time,
\* and none while isPlaying is false: pausing, resetting or changing the speed
\* cancels the pending timeout, so after Reset or Pause the dimension changes
\* only if Reset is pressed (to 2) until play is toggled on again, and while
\* playing with no further user input the dimension eventually advances.
C10_TimeoutDiscipline ==
    /\ []OnePending
    /\ [][CancelsPending]_vars
    /\ [][(~isPlaying /\ dimension' # dimension)
             => (lastOp' = "reset" /\ dimension' = 2)]_vars
    /\ Advances

C10_Witness ==
    /\ lastOp = "toggle" /\ ~isPlaying /\ dimension = 4
    /\ timers = {} /\ effectTimer = <<>>

====
